---------------------------- MODULE Spec2Model ----------------------------
(*************************************************************************)
(* The moderation-command guard of the RUST DOWN UNDER Discord bot.      *)
(*                                                                       *)
(* The repository holds several near-duplicate copies of the bot.  Each  *)
(* copy is one value of `variant`:                                       *)
(*   "main"    src/main.py                                               *)
(*   "cog"     src/RDU_BOT_CODE.py          (ModerationCommands cog)     *)
(*   "voice"   src/unnamed/part_000:1-670   (copied at 3020-3657)        *)
(*   "basic"   src/unnamed/part_000:2397-3017 (kick/ban/clear are also   *)
(*             copied at 677-850 and 851-1070)                           *)
(*   "dm"      src/unnamed/part_000:1072-1396                            *)
(*   "logged"  src/unnamed/part_000:1398-2395                            *)
(*                                                                       *)
(* Spec follows one command invocation: the guild configuration is drawn  *)
(* in Init, Dispatch creates the interaction, and one handler action     *)
(* runs the whole handler (decorator checks, body, and the tree error    *)
(* handler for whatever the body lets escape).  These handlers keep no   *)
(* state of their own between invocations.                               *)
(*                                                                       *)
(* The parts of the bot that do keep state have a specification each:    *)
(*   SpecStartup    the token check and the run block of every copy      *)
(*   SpecTimers     on_app_command_completion and delete_after_30s       *)
(*   SpecResponder  detection_settings (set_ar / res_ar, on_message)     *)
(*   SpecVoice      voice_clients (join, stop, leave, recording callback)*)
(*   SpecVoiceFair  SpecVoice where the awaits of /stop and of the        *)
(*                  recording callback return                            *)
(*   SpecChannel    the send_messages overwrite under lock and unlock    *)
(*   SpecDuration   parse_duration and the timeout of tempmute_command   *)
(*   SpecInteraction  the sends of one invocation, call by call          *)
(* A specification leaves the variables of the other parts at rest.      *)
(*************************************************************************)
EXTENDS Integers, FiniteSets, Sequences, TLC

\* ----------------------------------------------------------------- bounds
NumMembers == 2
MaxRank == 2
\* responses followed by the timers' specification
MaxMsgs == 2
\* guilds the bot is in
NumGuilds == 2
\* voice connections the bot makes
MaxClients == 2
\* characters in a duration string
MaxLen == 4
\* /join invocations that can be running at the same time
NumJoins == 2
\* the clock advances in steps of TickStep seconds; it runs past MaxTime
\* only while a timer is asleep
TickStep == 30
MaxTime == 30

\* ------------------------------------------------------ program constants
\* app_commands.Range[int, 1, 100] of purge / clear
PurgeMin == 1
PurgeMax == 100
\* timedelta(weeks=4), in days
MaxTimeoutDays == 28
\* asyncio.sleep(30)
Delay == 30

Members == 1..NumMembers
\* guild.owner is one of the members or somebody who takes no part
NoOwner == 0
Ranks == 0..MaxRank
NoLimit == -1
NoDuration == -1

Variants == {"voice", "logged", "dm", "basic", "cog", "main"}
MemberCmds == {"kick", "ban", "mute", "unmute"}
\* channel.purge counts asked for: below, at both ends of, and above the range
Amounts == {0, PurgeMin, PurgeMax, 150}
\* parse_duration results offered to tempmute, in days (NoDuration is None)
Durations == {NoDuration, 1, MaxTimeoutDays, MaxTimeoutDays + 1}
\* what a platform call (member.kick, member.ban, member.timeout,
\* channel.purge) can do
Outcomes == {"ok", "Forbidden", "HTTPException"}
\* what sending the confirmation to the invoker can do
SendOutcomes == {"ok", "HTTPException"}
\* how many non-empty options the string given to /choose holds
ChoiceCounts == 0..2

VARIABLES
    variant,        \* which copy of the bot runs
    topRole,        \* member.top_role of each member
    owner,          \* guild.owner
    botTopRole,     \* guild.me.top_role
    hasLogChannel,  \* a channel named LOG_CHANNEL_NAME exists
    pc,             \* "idle" | "dispatched" | "done"
    req,            \* the interaction and its parameters
    out,            \* what the invocation did
    env,            \* the environment variables DISCORD_BOT_TOKEN and TOKEN
    boot,           \* how far the start of the process got
    now,            \* the event loop's clock, in seconds
    msgs,           \* the interaction responses the bot has sent
    timers,         \* the delete_after_30s task of each response
    detection_settings, \* bot.detection_settings: guild id -> rule
    last,           \* the last auto-responder operation and its answer
    voice_clients,  \* voice_clients: guild id -> voice client
    clients,        \* the voice clients created so far, and their callbacks
    join,           \* the running /join invocations, where each is suspended
    joined,         \* how the /join that returned last ended
    stop,           \* the running /stop
    leave,          \* the running /leave
    overwrite,      \* the channel's @everyone overwrite of send_messages
    chan,           \* the last /lock or /unlock and what it did
    ix,             \* the interaction of the last invocation followed
    duration,       \* the duration string given to /tempmute
    tm              \* what parse_duration and tempmute_command made of it

config == <<variant, topRole, owner, botTopRole, hasLogChannel>>
cmdVars == <<topRole, owner, botTopRole, hasLogChannel, pc, req, out>>
bootVars == <<env, boot>>
timerVars == <<now, msgs, timers>>
ruleVars == <<detection_settings, last>>
voiceVars == <<voice_clients, clients, join, joined, stop, leave>>
chanVars == <<overwrite, chan>>
durVars == <<duration, tm>>
vars == <<variant, cmdVars, bootVars, timerVars, ruleVars, voiceVars, chanVars, ix, durVars>>

\* ------------------------------------------------------------ the commands
\* The commands each copy registers (tempmute, timeout and mute are "mute";
\* untimeout is "unmute"; purge is "clear"; "choose" is the FunCommands
\* command that validates its own input).
Commands(v) ==
    CASE v = "main"   -> {"kick", "ban", "mute", "unmute", "clear"}
      [] v = "cog"    -> {"kick", "ban", "mute", "unmute", "clear", "choose"}
      [] v = "voice"  -> {"kick", "mute"}
      [] v = "basic"  -> {"kick", "ban", "mute", "unmute", "clear"}
      [] v = "dm"     -> {"kick", "ban", "mute"}
      [] v = "logged" -> {"kick", "ban", "mute", "unmute", "clear"}

\* The copies whose handlers test interaction.guild
ChecksGuild(v) == v \in {"basic", "dm", "logged"}

\* @app_commands.checks.has_permissions on the command
HasPermissionsCheck(v, cmd) ==
    CASE v = "main" -> cmd \in {"kick", "ban"}
      [] v = "dm"   -> FALSE
      [] v = "cog"  -> cmd # "choose"
      [] OTHER      -> TRUE

\* app_commands.Range[int, 1, 100] on the count parameter
HasRange(v) == v # "main"

NoRequest ==
    [cmd |-> "none", actor |-> 0, target |-> 0, hasPerm |-> FALSE,
     inGuild |-> FALSE, amount |-> 0, td |-> NoDuration, choices |-> 0]

\* The record of one invocation.
\*   calls     how often the platform mutation was called
\*   mutation  "notcalled" or what the call did
\*   effect    the mutation took effect
\*   reply     the message the invoker got, "none" if none
\*   eph       the reply was sent with ephemeral=True
\*   detail    the reply carries the exception's message
\*   audit     send_log_embed posted the action to the log channel
\*   errlog    the error handler posted to the log channel
\*   raised    the exception that left the command's callback
\*   limit     the limit channel.purge was called with
Base ==
    [calls |-> 0, mutation |-> "notcalled", effect |-> FALSE, reply |-> "none",
     eph |-> FALSE, detail |-> FALSE, audit |-> FALSE, errlog |-> FALSE,
     raised |-> "none", limit |-> NoLimit]

Reply(kind, eph) == [Base EXCEPT !.reply = kind, !.eph = eph]
Raise(exc) == [Base EXCEPT !.raised = exc]

\* ---------------------------------------------------- the try/except block
\* try: await <mutation>; await <send the confirmation>; await send_log_embed
\* except discord.Forbidden: send the permission failure      (catchForbidden)
\* except Exception as e:    send "An error occurred: {e}"    (catchException)
\* The confirmation is sent inside the try, so what it raises is caught by
\* the same handlers.  send_log_embed swallows its own errors and posts only
\* when the log channel exists.
Attempt(mut, confirm, catchForbidden, catchException, confirmEph, logs) ==
    LET called == [Base EXCEPT !.calls = 1, !.mutation = mut,
                               !.effect = (mut = "ok")]
        generic == IF catchException
                   THEN [called EXCEPT !.reply = "FailGeneric", !.eph = TRUE,
                                       !.detail = TRUE]
                   ELSE [called EXCEPT !.raised = "HTTPException"]
    IN  IF mut = "Forbidden"
        THEN IF catchForbidden
             THEN [called EXCEPT !.reply = "FailPerm", !.eph = TRUE]
             ELSE IF catchException
                  THEN generic
                  ELSE [called EXCEPT !.raised = "Forbidden"]
        ELSE IF mut = "HTTPException"
        THEN generic
        ELSE IF confirm = "ok"
        THEN [called EXCEPT !.reply = "Success", !.eph = confirmEph,
                            !.audit = (logs /\ hasLogChannel)]
        ELSE generic

\* ------------------------------------------------------------ src/main.py
\* kick / ban: no hierarchy check, no try
main_kick(r, mut, confirm) == Attempt(mut, confirm, FALSE, FALSE, FALSE, FALSE)

\* mute: datetime is the class imported by "from datetime import datetime",
\* so datetime.timedelta raises AttributeError before member.timeout is called
main_mute(r, mut, confirm) == Raise("AttributeError")

\* unmute: member.timeout(None), no check, no try
main_unmute(r, mut, confirm) == Attempt(mut, confirm, FALSE, FALSE, FALSE, FALSE)

\* clear: amount is a plain int; channel.purge(limit=amount), then an
\* ephemeral confirmation
main_clear(r, mut, confirm) ==
    [Attempt(mut, confirm, FALSE, FALSE, TRUE, FALSE) EXCEPT !.limit = r.amount]

\* ----------------------------------------------------- src/RDU_BOT_CODE.py
check_hierarchy(moderator, target) ==
    IF target = moderator
    THEN "RejSelf"
    ELSE IF topRole[moderator] <= topRole[target] /\ moderator # owner
    THEN "RejSeniority"
    ELSE IF topRole[target] >= botTopRole
    THEN "RejBot"
    ELSE "none"

\* kick_command / ban_command: defer, _check_hierarchy, then
\* try ... except discord.errors.Forbidden only
cog_kick_command(r, mut, confirm) ==
    LET error_msg == check_hierarchy(r.actor, r.target)
    IN  IF error_msg # "none"
        THEN Reply(error_msg, TRUE)
        ELSE Attempt(mut, confirm, TRUE, FALSE, FALSE, FALSE)

\* tempmute_command / unmute_command: placeholders that only answer
cog_tempmute_command(r, mut, confirm) ==
    IF confirm = "ok" THEN Reply("Success", FALSE) ELSE Raise("HTTPException")

\* purge_command: defer(ephemeral), try purge; except Forbidden; except
\* Exception with a fixed text that does not carry the exception's message
cog_purge_command(r, mut, confirm) ==
    LET a == Attempt(mut, confirm, TRUE, TRUE, TRUE, FALSE)
    IN  [a EXCEPT !.limit = r.amount, !.detail = FALSE]

\* choose_command: with fewer than two options the text asking for two is
\* put where the choice would be; either way the embed is sent with
\* interaction.response.send_message(embed=embed), which is public
cog_choose_command(r, mut, confirm) ==
    IF confirm # "ok"
    THEN Raise("HTTPException")
    ELSE IF r.choices < 2
    THEN Reply("RejInput", FALSE)
    ELSE Reply("Success", FALSE)

\* ------------------------------------- src/unnamed/part_000 "voice" (1-670)
\* kick_command: defer(ephemeral), then the role comparison, which exempts
\* member == interaction.user and knows no guild owner
voice_kick_command(r, mut, confirm) ==
    IF topRole[r.target] >= topRole[r.actor] /\ r.target # r.actor
    THEN Reply("RejSeniority", TRUE)
    ELSE Attempt(mut, confirm, TRUE, TRUE, FALSE, TRUE)

\* tempmute_command: parse_duration, the 28-day limit, no role comparison
voice_tempmute_command(r, mut, confirm) ==
    IF r.td = NoDuration
    THEN Reply("RejDuration", TRUE)
    ELSE IF r.td > MaxTimeoutDays
    THEN Reply("RejDuration", TRUE)
    ELSE Attempt(mut, confirm, TRUE, TRUE, FALSE, TRUE)

\* ---------------------------------- src/unnamed/part_000 "basic" (2397-3017)
\* kick / ban: silent return outside a guild, role comparison with the owner
\* exempt, try ... except discord.Forbidden only
basic_kick(r, mut, confirm) ==
    IF ~r.inGuild
    THEN Base
    ELSE IF topRole[r.target] >= topRole[r.actor] /\ r.actor # owner
    THEN Reply("RejSeniority", TRUE)
    ELSE Attempt(mut, confirm, TRUE, FALSE, FALSE, TRUE)

\* tempmute: discord.utils.timedelta is looked up inside the try; when the
\* library build has no such name the AttributeError leaves the handler
\* before user.timeout is called (mut = "AttributeError").  No role comparison.
basic_tempmute(r, mut, confirm) ==
    IF ~r.inGuild
    THEN Base
    ELSE IF mut = "AttributeError"
    THEN Raise("AttributeError")
    ELSE Attempt(mut, confirm, TRUE, FALSE, TRUE, TRUE)

\* unmute: user.timeout(None), no role comparison
basic_unmute(r, mut, confirm) ==
    IF ~r.inGuild
    THEN Base
    ELSE Attempt(mut, confirm, TRUE, FALSE, TRUE, TRUE)

\* clear: defer(ephemeral), purge outside any try, ephemeral confirmation, log
basic_clear(r, mut, confirm) ==
    IF ~r.inGuild
    THEN Base
    ELSE [Attempt(mut, confirm, FALSE, FALSE, TRUE, TRUE) EXCEPT !.limit = r.amount]

\* ------------------------------------- src/unnamed/part_000 "dm" (1072-1396)
\* kick / ban / mute: answer in a DM, test guild_permissions in the body,
\* role comparison with the owner exempt, try with both except clauses, no log
dm_kick(r, mut, confirm) ==
    IF ~r.inGuild
    THEN Reply("RejDM", TRUE)
    ELSE IF ~r.hasPerm
    THEN Reply("Denied", TRUE)
    ELSE IF topRole[r.target] >= topRole[r.actor] /\ r.actor # owner
    THEN Reply("RejSeniority", TRUE)
    ELSE Attempt(mut, confirm, TRUE, TRUE, FALSE, FALSE)

\* --------------------------------- src/unnamed/part_000 "logged" (1398-2395)
\* kick / ban / mute: as "dm" without the permission test, with the log
logged_kick(r, mut, confirm) ==
    IF ~r.inGuild
    THEN Reply("RejDM", TRUE)
    ELSE IF topRole[r.target] >= topRole[r.actor] /\ r.actor # owner
    THEN Reply("RejSeniority", TRUE)
    ELSE Attempt(mut, confirm, TRUE, TRUE, FALSE, TRUE)

\* untimeout: silent return in a DM; "user.timeout is None" compares a bound
\* method with None and is never true
logged_untimeout(r, mut, confirm) ==
    IF ~r.inGuild
    THEN Base
    ELSE IF topRole[r.target] >= topRole[r.actor] /\ r.actor # owner
    THEN Reply("RejSeniority", TRUE)
    ELSE IF FALSE
    THEN Reply("RejNotTimedOut", TRUE)
    ELSE Attempt(mut, confirm, TRUE, TRUE, FALSE, TRUE)

\* clear: answers in a DM, otherwise as "basic"
logged_clear(r, mut, confirm) ==
    IF ~r.inGuild
    THEN Reply("RejDM", TRUE)
    ELSE [Attempt(mut, confirm, FALSE, FALSE, TRUE, TRUE) EXCEPT !.limit = r.amount]

\* ------------------------------------------------------ the error handlers
\* What the copy's tree error handler does with an exception that left the
\* callback (or a check, or a parameter transformer).  "main" and "dm"
\* register none.  The reply goes through followup or response, ephemeral.
on_app_command_error(v, res) ==
    LET exc == res.raised
        answer(kind, detail) ==
            [res EXCEPT !.reply = kind, !.eph = TRUE, !.detail = detail]
    IN  IF exc = "none" \/ v \in {"main", "dm"}
        THEN res
        ELSE IF exc = "MissingPermissions"
        THEN answer("Denied", FALSE)
        ELSE CASE v = "cog" ->
                    IF exc = "Forbidden"
                    THEN answer("FailPerm", FALSE)
                    ELSE answer("FailGeneric", FALSE)
               [] v = "voice" ->
                    [answer("FailGeneric", FALSE) EXCEPT !.errlog = hasLogChannel]
               [] v = "basic" -> res
               [] v = "logged" -> answer("FailGeneric", TRUE)


\* ------------------------------------------------------------- invocation
\* What the platform call can do.  Discord refuses (Forbidden) to kick, ban
\* or time out the guild owner or a member whose top role is not below the
\* bot's; any call can also fail with another HTTPException.
MutationOutcomes(r) ==
    IF r.cmd = "clear"
    THEN Outcomes
    ELSE (IF r.target # owner /\ botTopRole > topRole[r.target]
          THEN Outcomes
          ELSE Outcomes \ {"ok"})
         \cup (IF variant = "basic" /\ r.cmd = "mute"
               THEN {"AttributeError"}
               ELSE {})

\* The callback each copy registers under the command's name.
Callback(v, r, mut, confirm) ==
    CASE r.cmd \in {"kick", "ban"} ->
            (CASE v = "main"   -> main_kick(r, mut, confirm)
               [] v = "cog"    -> cog_kick_command(r, mut, confirm)
               [] v = "voice"  -> voice_kick_command(r, mut, confirm)
               [] v = "basic"  -> basic_kick(r, mut, confirm)
               [] v = "dm"     -> dm_kick(r, mut, confirm)
               [] v = "logged" -> logged_kick(r, mut, confirm))
      [] r.cmd = "mute" ->
            (CASE v = "main"   -> main_mute(r, mut, confirm)
               [] v = "cog"    -> cog_tempmute_command(r, mut, confirm)
               [] v = "voice"  -> voice_tempmute_command(r, mut, confirm)
               [] v = "basic"  -> basic_tempmute(r, mut, confirm)
               [] v = "dm"     -> dm_kick(r, mut, confirm)
               [] v = "logged" -> logged_kick(r, mut, confirm))
      [] r.cmd = "unmute" ->
            (CASE v = "main"   -> main_unmute(r, mut, confirm)
               [] v = "cog"    -> cog_tempmute_command(r, mut, confirm)
               [] v = "basic"  -> basic_unmute(r, mut, confirm)
               [] v = "logged" -> logged_untimeout(r, mut, confirm))
      [] r.cmd = "clear" ->
            (CASE v = "main"   -> main_clear(r, mut, confirm)
               [] v = "cog"    -> cog_purge_command(r, mut, confirm)
               [] v = "basic"  -> basic_clear(r, mut, confirm)
               [] v = "logged" -> logged_clear(r, mut, confirm))
      [] r.cmd = "choose" -> cog_choose_command(r, mut, confirm)

\* One invocation as the command tree runs it: the checks, then the
\* parameter transformers, then the callback; whatever is raised goes to the
\* tree's error handler.
Invoke(v, r, mut, confirm) ==
    on_app_command_error(v,
        IF HasPermissionsCheck(v, r.cmd) /\ ~r.hasPerm
        THEN Raise("MissingPermissions")
        ELSE IF r.cmd = "clear" /\ HasRange(v) /\ r.amount \notin PurgeMin..PurgeMax
        THEN Raise("TransformerError")
        ELSE Callback(v, r, mut, confirm))


\* --------------------------------------------------------------- startup
\* What an environment variable can hold: nothing, a token Discord refuses,
\* a token Discord accepts.
TokenValues == {"unset", "bad", "good"}

\* os.getenv('DISCORD_BOT_TOKEN') or os.getenv('TOKEN')
EitherToken(e) ==
    IF e.DISCORD_BOT_TOKEN # "unset" THEN e.DISCORD_BOT_TOKEN ELSE e.TOKEN

\* The process before its first statement.
\*   phase       "start" | "configured" | "run" | "online" | "exited"
\*   token       what the copy read from the environment
\*   diagnostic  the program printed or logged that the token is missing
\*   runReached  bot.run / bot.start was called
\*   uncaught    the process ended with an exception nothing caught
NotStarted ==
    [phase |-> "start", token |-> "unset", diagnostic |-> FALSE,
     runReached |-> FALSE, uncaught |-> FALSE]

\* The variables of startup while another part of the bot is followed: the
\* process is online with a token Discord accepted.
BootAtRest ==
    /\ env = [DISCORD_BOT_TOKEN |-> "good", TOKEN |-> "unset"]
    /\ boot = [NotStarted EXCEPT !.phase = "online", !.token = "good",
                                 !.runReached = TRUE]

\* The module-level configuration block: reads the token and, in some
\* copies, tests it.
\*   main    reads it, no test
\*   cog     prints FATAL ERROR and goes on
\*   voice   prints FATAL ERROR and sys.exit(1)
\*   basic   exit() without a word
\*   dm, logged   read nothing here (main() does)
load_token(v, e, b) ==
    LET token == EitherToken(e)
        read == [b EXCEPT !.phase = "configured", !.token = token]
    IN  CASE v = "main"  -> read
          [] v = "cog"   -> [read EXCEPT !.diagnostic = (token = "unset")]
          [] v = "voice" -> IF token = "unset"
                            THEN [read EXCEPT !.diagnostic = TRUE,
                                              !.phase = "exited"]
                            ELSE read
          [] v = "basic" -> IF token = "unset"
                            THEN [read EXCEPT !.phase = "exited"]
                            ELSE read
          [] v \in {"dm", "logged"} -> [b EXCEPT !.phase = "configured"]

\* The run block, up to the call of bot.run / bot.start.
\*   main, voice, basic   bot.run(DISCORD_TOKEN)
\*   cog     reads the token again, logs "Token missing. Cannot run." when
\*           there is none, then constructs the bot and calls bot.run(token)
\*   dm      main() reads DISCORD_BOT_TOKEN only; prints and returns without it
\*   logged  main() reads DISCORD_BOT_TOKEN, then TOKEN; prints and returns
\*           without either
run_block(v, e, b) ==
    LET run(token) == [b EXCEPT !.phase = "run", !.token = token,
                                !.runReached = TRUE]
        giveUp == [b EXCEPT !.phase = "exited", !.diagnostic = TRUE]
    IN  CASE v \in {"main", "voice", "basic"} -> run(b.token)
          [] v = "cog" ->
                [run(EitherToken(e)) EXCEPT
                    !.diagnostic = (b.diagnostic \/ EitherToken(e) = "unset")]
          [] v = "dm" ->
                IF e.DISCORD_BOT_TOKEN = "unset"
                THEN giveUp
                ELSE run(e.DISCORD_BOT_TOKEN)
          [] v = "logged" ->
                IF EitherToken(e) = "unset" THEN giveUp ELSE run(EitherToken(e))

\* bot.run / bot.start with the token: the library raises TypeError for a
\* token that is not a string and LoginFailure for one Discord refuses.
\* Every copy but "main" wraps the call in try ... except Exception.
login(v, b) ==
    IF b.token = "good"
    THEN [b EXCEPT !.phase = "online"]
    ELSE [b EXCEPT !.phase = "exited", !.uncaught = (v = "main")]

\* ------------------------------------------------------ deletion timers
MsgIds == 1..MaxMsgs

\* Commands of src/RDU_BOT_CODE.py by how they answer:
\*   poll, embed   public, no create_embed footer
\*   rules, ping   public, through create_embed
\*   settings      response.send_message(embed=embed, ephemeral=True)
TimerCmds == {"poll", "embed", "rules", "ping", "settings"}
Ephemeral(cmd) == cmd = "settings"

\* The commands that build their response with create_embed, which sets
\* the footer "Auto-deleting in 30 seconds."
create_embed_footer(cmd) == cmd \in {"rules", "ping", "settings"}

NoMsg ==
    [cmd |-> "none", eph |-> FALSE, phase |-> "unsent", exists |-> FALSE,
     fetch |-> "none"]

\* A delete_after_30s task.
\*   created    how many tasks create_task made for the message
\*   state      "none" | "sleeping" | "done"
\*   since      the clock when the task was created (while it sleeps)
\*   attempts   calls of message.delete()
\*   early      the call came less than Delay seconds after the creation
\*   found      the message still existed at the call
\*   result     "deleted" | "noop" (NotFound) | "logged" (HTTPException) |
\*              "raised" (an exception left the task)
\*   notified   the task sent something to the invoker
NoTimer ==
    [created |-> 0, state |-> "none", since |-> 0, attempts |-> 0,
     early |-> FALSE, found |-> FALSE, result |-> "none", notified |-> FALSE]

TimersAtRest ==
    /\ now = 0
    /\ msgs = [m \in MsgIds |-> NoMsg]
    /\ timers = [m \in MsgIds |-> NoTimer]

\* on_app_command_completion without the test of message.flags.ephemeral
on_app_command_completion_NoFlagTest(name, fetch, ephemeral) ==
    IF name \in {"embed", "poll"}
    THEN "skip"
    ELSE IF fetch = "NotFound"
    THEN "skip"
    ELSE IF fetch # "ok"
    THEN "logged"
    ELSE "schedule"

\* on_app_command_completion with 'poll' missing from the list of names
on_app_command_completion_EmbedOnly(name, fetch, ephemeral) ==
    IF name \in {"embed"}
    THEN "skip"
    ELSE IF fetch = "NotFound"
    THEN "skip"
    ELSE IF fetch # "ok"
    THEN "logged"
    ELSE IF ephemeral
    THEN "skip"
    ELSE "schedule"

\* on_app_command_completion: what it does with the response of the
\* command `name`, given what interaction.original_response() did and the
\* fetched message's ephemeral flag.
\*   "skip"      returns without a task
\*   "logged"    logs "Error scheduling message deletion"
\*   "schedule"  self.loop.create_task(delete_after_30s(message))
on_app_command_completion(name, fetch, ephemeral) ==
    IF name \in {"embed", "poll"}
    THEN "skip"
    ELSE IF fetch = "NotFound"
    THEN "skip"
    ELSE IF fetch # "ok"
    THEN "logged"
    ELSE IF ephemeral
    THEN "skip"
    ELSE "schedule"

\* The handler returns for /embed and /poll before it fetches anything.
Fetches(name) == name \notin {"embed", "poll"}

\* What interaction.original_response() can do: a response that is gone
\* cannot be fetched; one that exists is fetched unless the request fails.
FetchOutcomes(msg) ==
    IF msg.exists THEN {"ok", "HTTPException"} ELSE {"NotFound", "HTTPException"}

\* What message.delete() can do: NotFound when the message is gone, else
\* it deletes or fails (Forbidden and the other HTTPExceptions).
DeleteOutcomes(msg) ==
    IF msg.exists THEN {"ok", "HTTPException"} ELSE {"NotFound"}

\* await asyncio.sleep(30) returns no sooner than 30 seconds after the call
SleepOverAtOnce(t) == TRUE
SleepOver(t) == now >= t.since + Delay

\* delete_after_30s with the second except clause left out
delete_after_30s_NotFoundOnly(outcome) ==
    CASE outcome = "ok" -> "deleted"
      [] outcome = "NotFound" -> "noop"
      [] outcome = "HTTPException" -> "raised"

\* delete_after_30s after the sleep: try message.delete(); except NotFound:
\* pass; except HTTPException: logger.warning
delete_after_30s(outcome) ==
    CASE outcome = "ok" -> "deleted"
      [] outcome = "NotFound" -> "noop"
      [] outcome = "HTTPException" -> "logged"

\* ------------------------------------------------------- auto-responder
GuildIds == 1..NumGuilds

\* Text is a sequence of characters.  The keywords and the message texts
\* the commands and the channel are given: lower case, upper case, padded
\* with a blank, and unrelated.
Keywords == {<<"w">>, <<"W">>, <<" ", "w">>, <<"r", "w">>}
Responses == {"See #rules", "Soon"}
Texts == {<< >>, <<"w">>, <<"x", "W", "?">>, <<"x">>}

NoOp ==
    [op |-> "none", guild |-> 0, admin |-> FALSE, keyword |-> << >>,
     response |-> "", text |-> << >>, replaced |-> FALSE, reply |-> "none"]

\* self.detection_settings = {}
RulesAtRest ==
    /\ detection_settings = << >>
    /\ last = NoOp

\* set_ar with dict.setdefault in place of the assignment
set_ar_KeepsFirst(settings, guild_id, isAdmin, keyword, response) ==
    IF ~isAdmin \/ guild_id \in DOMAIN settings
    THEN settings
    ELSE [g \in DOMAIN settings \cup {guild_id} |->
            IF g = guild_id
            THEN [keyword |-> keyword, response |-> response]
            ELSE settings[g]]

\* set_ar: if it.user.id != ADMIN_ID: return; then
\* bot.detection_settings[it.guild_id] = {'keyword': keyword, 'response': response}
set_ar(settings, guild_id, isAdmin, keyword, response) ==
    IF ~isAdmin
    THEN settings
    ELSE [g \in DOMAIN settings \cup {guild_id} |->
            IF g = guild_id
            THEN [keyword |-> keyword, response |-> response]
            ELSE settings[g]]

\* res_ar: bot.detection_settings.pop(it.guild_id, None), whoever asks
res_ar(settings, guild_id) ==
    [g \in DOMAIN settings \ {guild_id} |-> settings[g]]

\* The bot defines no on_message: commands.Bot.on_message only hands the
\* message to process_commands, and nothing reads detection_settings.
on_message(settings, guild_id, text) == "none"

\* ------------------------------------------------------ voice recording
\* The voice handlers of one guild touch only that guild's key of
\* voice_clients and that guild's voice clients, so the recording machine
\* follows the commands and callbacks of one guild.
VoiceGuild == 1

ClientIds == 1..MaxClients

JoinIds == 1..NumJoins

\* /stop or /leave when it is not running: not invoked yet, or returned,
\* or ended by an exception ("KeyErrorAtRead": voice_clients[guild_id];
\* "KeyErrorAtDel": del voice_clients[guild_id]).
Returned == {"idle", "rejected", "done", "KeyErrorAtRead", "KeyErrorAtDel"}

\* How a /join ends: rejected by one of its two checks, answered with an
\* error after a failed connection, recording started, or an
\* AttributeError from start_recording on the None that move_to returns.
JoinResults == {"rejected", "failed", "done", "AttributeError"}

Task(at, c) == [pc |-> at, vc |-> c]

\* voice_clients = {}
VoiceAtRest ==
    /\ voice_clients = << >>
    /\ clients = << >>
    /\ join = [j \in JoinIds |-> Task("idle", 0)]
    /\ joined = "none"
    /\ stop = Task("idle", 0)
    /\ leave = Task("idle", 0)

\* guild_id in voice_clients and voice_clients[guild_id].is_connected()
Connected(vcs, cs, g) == g \in DOMAIN vcs /\ cs[vcs[g]].connected

\* del voice_clients[guild_id], for a key that is there
Del(vcs, g) == [k \in DOMAIN vcs \ {g} |-> vcs[k]]

\* voice_clients[guild_id] = vc
Put(vcs, g, c) == [k \in DOMAIN vcs \cup {g} |-> IF k = g THEN c ELSE vcs[k]]

\* stop_recording that ends the recording and never calls the callback
stop_recording_NoCallback(cs, c) == [cs EXCEPT ![c].recording = FALSE]

\* vc.stop_recording(): the recording ends and the sink's thread hands
\* finished_recording_callback to the event loop.
stop_recording(cs, c) ==
    [cs EXCEPT ![c].recording = FALSE, ![c].cb = "scheduled"]

\* await vc.disconnect() has returned
disconnect(cs, c) == [cs EXCEPT ![c].connected = FALSE]

\* ------------------------------------------------------ parse_duration
\* The characters of duration strings: digits, unit letters in lower case,
\* one letter in upper case.  With these digits every duration of the
\* strings considered, counted in seconds, stays within TLC's integers.
Digits == {"0", "1", "3"}
Letters == {"s", "m", "o", "h", "d", "w", "H"}
Alphabet == Digits \cup Letters
DurationStrings == UNION {[1..n -> Alphabet] : n \in 0..MaxLen}

\* int(char)
DigitValue(char) == CASE char = "0" -> 0 [] char = "1" -> 1 [] char = "3" -> 3

\* str.lower()
lower(str) == [i \in 1..Len(str) |-> IF str[i] = "H" THEN "h" ELSE str[i]]

\* str.startswith(prefix)
startswith(str, prefix) ==
    Len(str) >= Len(prefix) /\ SubSeq(str, 1, Len(prefix)) = prefix

\* timedelta(seconds=1) ... timedelta(weeks=1), in seconds
Second == 1
Minute == 60
Hour == 3600
Day == 86400
Week == 604800

\* for char in duration_str: if char.isdigit(): amount = amount * 10 + int(char)
RECURSIVE AmountOf(_, _)
AmountOf(str, amount) ==
    IF str = << >>
    THEN amount
    ELSE AmountOf(Tail(str),
                  IF Head(str) \in Digits
                  THEN amount * 10 + DigitValue(Head(str))
                  ELSE amount)

\* elif char.isalpha(): unit += char
UnitOf(str) == SelectSeq(str, LAMBDA char : char \in Letters)

\* parse_duration: the timedelta in seconds, NoDuration for None
parse_duration(duration_str) ==
    LET str == lower(duration_str)
        amount == AmountOf(str, 0)
        unit == UnitOf(str)
    IN  IF amount = 0 \/ unit = << >>
        THEN NoDuration
        ELSE IF startswith(unit, <<"s">>)
        THEN amount * Second
        ELSE IF startswith(unit, <<"m">>) /\ ~startswith(unit, <<"m", "o">>)
        THEN amount * Minute
        ELSE IF startswith(unit, <<"h">>)
        THEN amount * Hour
        ELSE IF startswith(unit, <<"d">>)
        THEN amount * Day
        ELSE IF startswith(unit, <<"w">>)
        THEN amount * Week
        ELSE NoDuration

\* The record of one use of the duration string.
\*   td      what parse_duration returned
\*   called  member.timeout(td) was called
\*   reply   the message the invoker got
NoMute == [op |-> "none", td |-> NoDuration, called |-> FALSE, reply |-> "none"]

DurationAtRest ==
    /\ duration = << >>
    /\ tm = NoMute

\* tempmute_command without the test of the 28-day limit
tempmute_command_NoLimit(duration_str, mut) ==
    LET td == parse_duration(duration_str)
        c == [NoMute EXCEPT !.op = "tempmute", !.td = td]
    IN  IF td = NoDuration
        THEN [c EXCEPT !.reply = "RejFormat"]
        ELSE [c EXCEPT !.called = TRUE, !.reply = "Success"]

\* tempmute_command: defer, parse_duration, the two rejections, then
\* member.timeout(td) inside try ... except Forbidden ... except Exception.
tempmute_command(duration_str, mut) ==
    LET td == parse_duration(duration_str)
        c == [NoMute EXCEPT !.op = "tempmute", !.td = td]
    IN  IF td = NoDuration
        THEN [c EXCEPT !.reply = "RejFormat"]
        ELSE IF td > MaxTimeoutDays * Day
        THEN [c EXCEPT !.reply = "RejDuration"]
        ELSE [c EXCEPT !.called = TRUE,
                       !.reply = CASE mut = "ok" -> "Success"
                                   [] mut = "Forbidden" -> "FailPerm"
                                   [] OTHER -> "FailGeneric"]

\* -------------------------------------------------------- interactions
\* One interaction and what its handler did with it.
\*   inGuild  the command was invoked in a guild channel
\*   hasPerm  the has_permissions decorator of the command passes
\*   valid    the invoker is the administrator (set_autoresponse,
\*            backup_logs), the colour parses (embed), the role
\*            comparison passes (kick)
\*   done     interaction.response.is_done()
\*   initial  initial responses (response.send_message, response.defer)
\*            the platform accepted
\*   twice    response.send_message or response.defer was called on an
\*            interaction that had its initial response
\*   later    messages sent through followup or straight to a channel
\*   failed   a send was refused by the platform
\*   raised   the exception that left the handler and the error handler
\*   calls    the sends of the invocation in order, each with the way it
\*            went and what came of it
NoInteraction ==
    [cmd |-> "none", inGuild |-> TRUE, hasPerm |-> TRUE, valid |-> TRUE,
     done |-> FALSE, initial |-> 0, twice |-> FALSE, later |-> 0,
     failed |-> FALSE, raised |-> "none", calls |-> <<>>]

InteractionAtRest == ix = NoInteraction

NewInteraction(cmd, inGuild, hasPerm, valid) ==
    [NoInteraction EXCEPT !.cmd = cmd, !.inGuild = inGuild,
                          !.hasPerm = hasPerm, !.valid = valid]

\* interaction.response.send_message / interaction.response.defer: the
\* library raises InteractionResponded when the interaction already has
\* its initial response.
response_send(i, outcome) ==
    IF i.done
    THEN [i EXCEPT !.twice = TRUE, !.raised = "InteractionResponded",
                   !.calls = Append(@, [via |-> "response",
                                        outcome |-> "InteractionResponded"])]
    ELSE IF outcome = "ok"
    THEN [i EXCEPT !.done = TRUE, !.initial = @ + 1,
                   !.calls = Append(@, [via |-> "response", outcome |-> outcome])]
    ELSE [i EXCEPT !.failed = TRUE, !.raised = outcome,
                   !.calls = Append(@, [via |-> "response", outcome |-> outcome])]

\* interaction.followup.send, channel.send
followup_send(i, outcome) ==
    IF outcome = "ok"
    THEN [i EXCEPT !.later = @ + 1,
                   !.calls = Append(@, [via |-> "followup", outcome |-> outcome])]
    ELSE [i EXCEPT !.failed = TRUE, !.raised = outcome,
                   !.calls = Append(@, [via |-> "followup", outcome |-> outcome])]

\* The tree error handler of each copy, at the level of its calls:
\* followup when interaction.response.is_done(), response otherwise.
\* "cog" wraps the send in try ... except Exception: pass; "main" has none.
error_response(v, i, outcome) ==
    IF i.raised = "none" \/ v = "main"
    THEN i
    ELSE LET caught == [i EXCEPT !.raised = "none"]
             sent == IF i.done
                     THEN followup_send(caught, outcome)
                     ELSE response_send(caught, outcome)
         IN  IF v = "cog" THEN [sent EXCEPT !.raised = "none"] ELSE sent

\* "logged" embed_message, behind has_permissions(administrator): silent
\* return in a DM; a colour that does not parse is answered with
\* response.send_message and the handler goes on to send the embed with
\* response.send_message again; except Forbidden answers with
\* response.send_message a third time.
embed_message(i, o) ==
    IF ~i.hasPerm
    THEN [i EXCEPT !.raised = "MissingPermissions"]
    ELSE IF ~i.inGuild
    THEN i
    ELSE LET a == IF i.valid THEN i ELSE response_send(i, o[1])
         IN  IF a.raised # "none"
             THEN a
             ELSE LET b == response_send(a, o[2])
                  IN  IF b.raised = "Forbidden"
                      THEN response_send([b EXCEPT !.raised = "none"], o[3])
                      ELSE b

\* "logged" kick, behind has_permissions(kick_members): every answer of the
\* handler, on the rejections, after the kick and in both except clauses,
\* is response.send_message.
kick_responses(i, mut, o) ==
    IF ~i.hasPerm
    THEN [i EXCEPT !.raised = "MissingPermissions"]
    ELSE IF ~i.inGuild \/ ~i.valid
    THEN response_send(i, o[1])
    ELSE IF mut # "ok"
    THEN response_send(i, o[2])
    ELSE LET b == response_send(i, o[1])
         IN  IF b.raised # "none"
             THEN response_send([b EXCEPT !.raised = "none"], o[2])
             ELSE b

\* "logged" warn, behind has_permissions(kick_members): silent return in a
\* DM, otherwise the confirmation.
warn(i, o) ==
    IF ~i.hasPerm
    THEN [i EXCEPT !.raised = "MissingPermissions"]
    ELSE IF ~i.inGuild
    THEN i
    ELSE response_send(i, o[1])

\* "cog" kick_command, behind has_permissions(kick_members): defer, then
\* every answer through followup; an exception other than Forbidden leaves
\* the handler.
kick_command_responses(i, mut, o) ==
    IF ~i.hasPerm
    THEN [i EXCEPT !.raised = "MissingPermissions"]
    ELSE LET d == response_send(i, o[1])
         IN  IF d.raised # "none"
             THEN d
             ELSE IF ~i.valid \/ mut \in {"ok", "Forbidden"}
             THEN followup_send(d, o[2])
             ELSE [d EXCEPT !.raised = mut]

\* "main" set_ar and b_logs: if it.user.id != ADMIN_ID: return
admin_only(i, o) ==
    IF ~i.valid THEN i ELSE response_send(i, o[1])

\* "main" nuke: channel.clone(), channel.delete(), new.send(...); the
\* interaction itself gets no response.
nuke(i, mut, o) ==
    IF mut # "ok"
    THEN [i EXCEPT !.raised = mut]
    ELSE followup_send(i, o[1])

\* ------------------------------------------------------ lock and unlock
\* PermissionOverwrite.send_messages of the default role: None (neutral),
\* True or False.
OverwriteValues == {"None", "True", "False"}

\* The copies that register /lock and /unlock.
LockVariants == {"main", "cog", "logged"}

\* The record of one /lock or /unlock.
\*   inGuild the command was invoked in a guild channel
\*   hasPerm the invoker holds manage_channels
\*   before  the overwrite when the command was invoked
\*   called  channel.set_permissions was called
\*   reply   the message the invoker got
\*   raised  the exception that left the callback
NoChange ==
    [op |-> "none", inGuild |-> TRUE, hasPerm |-> TRUE, before |-> "None",
     called |-> FALSE, after |-> "None", reply |-> "none", raised |-> "none"]

ChannelAtRest ==
    /\ overwrite = "None"
    /\ chan = NoChange

\* lock.  "cog" and "logged" carry has_permissions(manage_channels), whose
\* failure goes to the tree's error handler.  "main":
\* set_permissions(send_messages=False), then the answer, no test and no
\* try.  "cog": a placeholder that only answers.  "logged":
\* silent return in a DM; rejected when overwrite.send_messages is False;
\* otherwise set_permissions inside try ... except discord.Forbidden.
lock(v, ow, inGuild, hasPerm, outcome) ==
    LET c == [NoChange EXCEPT !.op = "lock", !.inGuild = inGuild,
                              !.hasPerm = hasPerm, !.before = ow, !.after = ow]
    IN  IF v # "main" /\ ~hasPerm
        THEN [c EXCEPT !.raised = "MissingPermissions",
                       !.reply = on_app_command_error(v, Raise("MissingPermissions")).reply]
        ELSE IF v = "logged" /\ ~inGuild
        THEN c
        ELSE IF v = "cog"
        THEN [c EXCEPT !.reply = "Success"]
        ELSE IF v = "logged" /\ ow = "False"
        THEN [c EXCEPT !.reply = "RejLocked"]
        ELSE IF outcome = "ok"
        THEN [c EXCEPT !.called = TRUE, !.after = "False", !.reply = "Success"]
        ELSE IF outcome = "Forbidden" /\ v = "logged"
        THEN [c EXCEPT !.called = TRUE, !.reply = "FailPerm"]
        ELSE [c EXCEPT !.called = TRUE, !.raised = outcome]

\* unlock.  "main": set_permissions(send_messages=True).  "logged":
\* rejected when overwrite.send_messages is None or True; otherwise the
\* overwrite goes back to None.
unlock(v, ow, inGuild, hasPerm, outcome) ==
    LET c == [NoChange EXCEPT !.op = "unlock", !.inGuild = inGuild,
                              !.hasPerm = hasPerm, !.before = ow, !.after = ow]
    IN  IF v # "main" /\ ~hasPerm
        THEN [c EXCEPT !.raised = "MissingPermissions",
                       !.reply = on_app_command_error(v, Raise("MissingPermissions")).reply]
        ELSE IF v = "logged" /\ ~inGuild
        THEN c
        ELSE IF v = "cog"
        THEN [c EXCEPT !.reply = "Success"]
        ELSE IF v = "logged" /\ ow \in {"None", "True"}
        THEN [c EXCEPT !.reply = "RejNotLocked"]
        ELSE IF outcome = "ok"
        THEN [c EXCEPT !.called = TRUE, !.reply = "Success",
                       !.after = IF v = "main" THEN "True" ELSE "None"]
        ELSE IF outcome = "Forbidden" /\ v = "logged"
        THEN [c EXCEPT !.called = TRUE, !.reply = "FailPerm"]
        ELSE [c EXCEPT !.called = TRUE, !.raised = outcome]

\* ------------------------------------------------------------ the machine
Init ==
    /\ variant \in Variants
    /\ topRole \in [Members -> Ranks]
    /\ owner \in Members \cup {NoOwner}
    /\ botTopRole \in Ranks
    /\ hasLogChannel \in BOOLEAN
    /\ pc = "idle"
    /\ req = NoRequest
    /\ out = Base
    /\ BootAtRest
    /\ TimersAtRest
    /\ RulesAtRest
    /\ VoiceAtRest
    /\ ChannelAtRest
    /\ InteractionAtRest
    /\ DurationAtRest

\* A user runs a slash command: the platform creates the interaction.
Dispatch ==
    /\ pc = "idle"
    /\ \E cmd \in Commands(variant), actor \in Members, target \in Members,
          hasPerm \in BOOLEAN, inGuild \in BOOLEAN,
          amount \in Amounts, td \in Durations, choices \in ChoiceCounts :
          /\ inGuild \/ ChecksGuild(variant)
          /\ cmd = "choose" \/ choices = 0
          /\ cmd \notin {"clear", "choose"} \/ target = actor
          /\ cmd = "clear" \/ amount = PurgeMin
          /\ (variant = "voice" /\ cmd = "mute") \/ td = NoDuration
          /\ req' = [cmd |-> cmd, actor |-> actor, target |-> target,
                     hasPerm |-> hasPerm, inGuild |-> inGuild,
                     amount |-> amount, td |-> td, choices |-> choices]
    /\ pc' = "dispatched"
    /\ UNCHANGED <<config, out, bootVars, timerVars,
                   ruleVars, voiceVars, chanVars, ix, durVars>>

\* The handler runs to its end: the platform call and the confirmation do
\* what the environment makes them do.
Run ==
    /\ \E mut \in MutationOutcomes(req), confirm \in SendOutcomes :
          out' = Invoke(variant, req, mut, confirm)
    /\ pc' = "done"
    /\ UNCHANGED <<config, req, bootVars, timerVars,
                   ruleVars, voiceVars, chanVars, ix, durVars>>

KickCmd ==
    /\ pc = "dispatched"
    /\ req.cmd = "kick"
    /\ Run

BanCmd ==
    /\ pc = "dispatched"
    /\ req.cmd = "ban"
    /\ Run

\* mute, tempmute, timeout
MuteCmd ==
    /\ pc = "dispatched"
    /\ req.cmd = "mute"
    /\ Run

\* unmute, untimeout
UnmuteCmd ==
    /\ pc = "dispatched"
    /\ req.cmd = "unmute"
    /\ Run

\* clear, purge
ClearCmd ==
    /\ pc = "dispatched"
    /\ req.cmd = "clear"
    /\ Run

ChooseCmd ==
    /\ pc = "dispatched"
    /\ req.cmd = "choose"
    /\ Run

Next ==
    \/ Dispatch
    \/ KickCmd
    \/ BanCmd
    \/ MuteCmd
    \/ UnmuteCmd
    \/ ClearCmd
    \/ ChooseCmd

Spec == Init /\ [][Next]_vars

\* ------------------------------------------------- the machine of startup
\* The variables of the commands while no command is followed.
CmdAtRest ==
    /\ topRole = [m \in Members |-> 0]
    /\ owner = NoOwner
    /\ botTopRole = 0
    /\ hasLogChannel = FALSE
    /\ pc = "off"
    /\ req = NoRequest
    /\ out = Base

InitStartup ==
    /\ variant \in Variants
    /\ env \in [DISCORD_BOT_TOKEN : TokenValues, TOKEN : TokenValues]
    /\ boot = NotStarted
    /\ CmdAtRest
    /\ TimersAtRest
    /\ RulesAtRest
    /\ VoiceAtRest
    /\ ChannelAtRest
    /\ InteractionAtRest
    /\ DurationAtRest

\* The interpreter runs the configuration block at the top of the file.
LoadToken ==
    /\ boot.phase = "start"
    /\ boot' = load_token(variant, env, boot)
    /\ UNCHANGED <<variant, cmdVars, env, timerVars,
                   ruleVars, voiceVars, chanVars, ix, durVars>>

\* The interpreter reaches the run block at the end of the file.
RunBlock ==
    /\ boot.phase = "configured"
    /\ boot' = run_block(variant, env, boot)
    /\ UNCHANGED <<variant, cmdVars, env, timerVars,
                   ruleVars, voiceVars, chanVars, ix, durVars>>

\* bot.run / bot.start logs in, or fails to.
Login ==
    /\ boot.phase = "run"
    /\ boot' = login(variant, boot)
    /\ UNCHANGED <<variant, cmdVars, env, timerVars,
                   ruleVars, voiceVars, chanVars, ix, durVars>>

NextStartup == LoadToken \/ RunBlock \/ Login

SpecStartup == InitStartup /\ [][NextStartup]_vars

\* ------------------------------------ the machine of the auto-responder
InitResponder ==
    /\ variant = "main"
    /\ CmdAtRest
    /\ BootAtRest
    /\ TimersAtRest
    /\ RulesAtRest
    /\ VoiceAtRest
    /\ ChannelAtRest
    /\ InteractionAtRest
    /\ DurationAtRest

\* /set_autoresponse: the whole handler; a caller who is not the
\* administrator gets no answer.
SetAr(g, isAdmin, keyword, response) ==
    /\ detection_settings' =
            set_ar(detection_settings, g, isAdmin, keyword, response)
    /\ last' = [NoOp EXCEPT !.op = "set", !.guild = g, !.admin = isAdmin,
                            !.keyword = keyword, !.response = response,
                            !.replaced = (g \in DOMAIN detection_settings),
                            !.reply = IF isAdmin THEN "Set" ELSE "none"]
    /\ UNCHANGED <<variant, cmdVars, bootVars, timerVars,
                   voiceVars, chanVars, ix, durVars>>

\* /reset_autoresponse: the whole handler.
ResAr(g, isAdmin) ==
    /\ detection_settings' = res_ar(detection_settings, g)
    /\ last' = [NoOp EXCEPT !.op = "reset", !.guild = g, !.admin = isAdmin,
                            !.replaced = (g \in DOMAIN detection_settings),
                            !.reply = "Reset"]
    /\ UNCHANGED <<variant, cmdVars, bootVars, timerVars,
                   voiceVars, chanVars, ix, durVars>>

\* A message arrives in a channel of guild g.
OnMessage(g, text) ==
    /\ last' = [NoOp EXCEPT !.op = "message", !.guild = g, !.text = text,
                            !.reply = on_message(detection_settings, g, text)]
    /\ UNCHANGED <<variant, cmdVars, bootVars, timerVars,
                   voiceVars, chanVars, ix, durVars, detection_settings>>

NextResponder ==
    \/ \E g \in GuildIds, isAdmin \in BOOLEAN, k \in Keywords, r \in Responses :
          SetAr(g, isAdmin, k, r)
    \/ \E g \in GuildIds, isAdmin \in BOOLEAN : ResAr(g, isAdmin)
    \/ \E g \in GuildIds, text \in Texts : OnMessage(g, text)

SpecResponder == InitResponder /\ [][NextResponder]_vars

\* --------------------------------------- the machine of voice recording
\* Each action runs a handler from one await to the next: the event loop
\* runs a task without interruption between two awaits.
InitVoice ==
    /\ variant = "voice"
    /\ CmdAtRest
    /\ BootAtRest
    /\ TimersAtRest
    /\ RulesAtRest
    /\ VoiceAtRest
    /\ ChannelAtRest
    /\ InteractionAtRest
    /\ DurationAtRest

\* The /join invocations between their defer and their return.
Joining == {j \in JoinIds : join[j].pc \in {"deferred", "connecting", "moving"}}

\* /join up to its first await: the two rejections, or the defer.
JoinStart(j, inVoice) ==
    /\ join[j].pc = "idle"
    /\ Len(clients) + Cardinality(Joining) < MaxClients
    /\ IF ~inVoice \/ Connected(voice_clients, clients, VoiceGuild)
       THEN /\ joined' = "rejected"
            /\ UNCHANGED join
       ELSE /\ join' = [join EXCEPT ![j] = Task("deferred", 0)]
            /\ UNCHANGED joined
    /\ UNCHANGED <<variant, cmdVars, bootVars, timerVars, ruleVars, chanVars,
                   ix, durVars, voice_clients, clients, stop, leave>>

\* After the defer: move_to for a guild that has an entry, connect for
\* one that has none.
JoinRun(j) ==
    /\ join[j].pc = "deferred"
    /\ join' = [join EXCEPT ![j] =
                    IF VoiceGuild \in DOMAIN voice_clients
                    THEN Task("moving", 0)
                    ELSE Task("connecting", 0)]
    /\ UNCHANGED <<variant, cmdVars, bootVars, timerVars, ruleVars, chanVars,
                   ix, durVars, voice_clients, clients, joined, stop, leave>>

\* The connection attempt returns.  connect() gives a new voice client,
\* which is stored and starts recording; move_to() gives None, on which
\* start_recording cannot be called; Forbidden and other exceptions are
\* answered and end the handler.
JoinConnected(j, outcome) ==
    /\ join[j].pc \in {"connecting", "moving"}
    /\ join' = [join EXCEPT ![j] = Task("idle", 0)]
    /\ IF outcome # "ok"
       THEN /\ joined' = "failed"
            /\ UNCHANGED <<voice_clients, clients>>
       ELSE IF join[j].pc = "moving"
       THEN /\ joined' = "AttributeError"
            /\ UNCHANGED <<voice_clients, clients>>
       ELSE /\ clients' = Append(clients,
                    [connected |-> TRUE, recording |-> TRUE, cb |-> "none"])
            /\ voice_clients' = Put(voice_clients, VoiceGuild, Len(clients) + 1)
            /\ joined' = "done"
    /\ UNCHANGED <<variant, cmdVars, bootVars, timerVars, ruleVars,
                   chanVars, ix, durVars, stop, leave>>

\* /stop up to its first await.
StopStart ==
    /\ stop.pc \in Returned
    /\ stop' = IF Connected(voice_clients, clients, VoiceGuild)
               THEN Task("deferred", 0)
               ELSE Task("rejected", 0)
    /\ UNCHANGED <<variant, cmdVars, bootVars, timerVars, ruleVars, chanVars,
                   ix, durVars, voice_clients, clients, join, joined, leave>>

\* After the defer: read the entry and stop the recording; when
\* stop_recording raises (nothing is being recorded) the except block
\* starts the disconnect of the guild's client.
StopRun ==
    /\ stop.pc = "deferred"
    /\ IF VoiceGuild \notin DOMAIN voice_clients
       THEN /\ stop' = Task("KeyErrorAtRead", 0)
            /\ UNCHANGED clients
       ELSE IF clients[voice_clients[VoiceGuild]].recording
       THEN /\ clients' = stop_recording(clients, voice_clients[VoiceGuild])
            /\ stop' = Task("done", voice_clients[VoiceGuild])
       ELSE /\ stop' = Task("cleanup", voice_clients[VoiceGuild])
            /\ UNCHANGED clients
    /\ UNCHANGED <<variant, cmdVars, bootVars, timerVars, ruleVars, chanVars,
                   ix, durVars, voice_clients, join, joined, leave>>

\* The except block after its disconnect: del voice_clients[guild_id].
StopCleanup ==
    /\ stop.pc = "cleanup"
    /\ clients' = disconnect(clients, stop.vc)
    /\ IF VoiceGuild \in DOMAIN voice_clients
       THEN /\ voice_clients' = Del(voice_clients, VoiceGuild)
            /\ stop' = Task("done", stop.vc)
       ELSE /\ stop' = Task("KeyErrorAtDel", 0)
            /\ UNCHANGED voice_clients
    /\ UNCHANGED <<variant, cmdVars, bootVars, timerVars, ruleVars,
                   chanVars, ix, durVars, join, joined, leave>>

\* /leave up to its first await.
LeaveStart ==
    /\ leave.pc \in Returned
    /\ leave' = IF Connected(voice_clients, clients, VoiceGuild)
                THEN Task("deferred", 0)
                ELSE Task("rejected", 0)
    /\ UNCHANGED <<variant, cmdVars, bootVars, timerVars, ruleVars, chanVars,
                   ix, durVars, voice_clients, clients, join, joined, stop>>

\* After the defer: read the entry, stop an active recording, and await
\* the disconnect.
LeaveRun ==
    /\ leave.pc = "deferred"
    /\ IF VoiceGuild \notin DOMAIN voice_clients
       THEN /\ leave' = Task("KeyErrorAtRead", 0)
            /\ UNCHANGED clients
       ELSE /\ leave' = Task("disconnecting", voice_clients[VoiceGuild])
            /\ clients' = IF clients[voice_clients[VoiceGuild]].recording
                          THEN stop_recording(clients, voice_clients[VoiceGuild])
                          ELSE clients
    /\ UNCHANGED <<variant, cmdVars, bootVars, timerVars, ruleVars, chanVars,
                   ix, durVars, voice_clients, join, joined, stop>>

\* After the disconnect: del voice_clients[guild_id], then the answer and
\* the log entry.
LeaveDisconnected ==
    /\ leave.pc = "disconnecting"
    /\ clients' = disconnect(clients, leave.vc)
    /\ IF VoiceGuild \in DOMAIN voice_clients
       THEN /\ voice_clients' = Del(voice_clients, VoiceGuild)
            /\ leave' = Task("done", 0)
       ELSE /\ leave' = Task("KeyErrorAtDel", 0)
            /\ UNCHANGED voice_clients
    /\ UNCHANGED <<variant, cmdVars, bootVars, timerVars, ruleVars,
                   chanVars, ix, durVars, join, joined, stop>>

\* finished_recording_callback of client c starts: await vc.disconnect().
CallbackStart(c) ==
    /\ c \in DOMAIN clients
    /\ clients[c].cb = "scheduled"
    /\ clients' = [clients EXCEPT ![c].cb = "disconnecting"]
    /\ UNCHANGED <<variant, cmdVars, bootVars, timerVars, ruleVars, chanVars,
                   ix, durVars, voice_clients, join, joined, stop, leave>>

\* After the disconnect: if guild.id in voice_clients: del ..., then the
\* files are sent.
CallbackDisconnected(c) ==
    /\ c \in DOMAIN clients
    /\ clients[c].cb = "disconnecting"
    /\ clients' = [disconnect(clients, c) EXCEPT ![c].cb = "sending"]
    /\ voice_clients' = IF VoiceGuild \in DOMAIN voice_clients
                        THEN Del(voice_clients, VoiceGuild)
                        ELSE voice_clients
    /\ UNCHANGED <<variant, cmdVars, bootVars, timerVars, ruleVars, chanVars,
                   ix, durVars, join, joined, stop, leave>>

\* The files and the log entry are sent; the callback returns.
CallbackDone(c) ==
    /\ c \in DOMAIN clients
    /\ clients[c].cb = "sending"
    /\ clients' = [clients EXCEPT ![c].cb = "done"]
    /\ UNCHANGED <<variant, cmdVars, bootVars, timerVars, ruleVars, chanVars,
                   ix, durVars, voice_clients, join, joined, stop, leave>>

\* The connection of client c is ended from outside (the bot is removed
\* from the channel, or the connection is lost); its entry stays.
Dropped(c) ==
    /\ c \in DOMAIN clients
    /\ clients[c].connected
    /\ clients' = disconnect(clients, c)
    /\ UNCHANGED <<variant, cmdVars, bootVars, timerVars, ruleVars, chanVars,
                   ix, durVars, voice_clients, join, joined, stop, leave>>

NextVoice ==
    \/ \E j \in JoinIds, inVoice \in BOOLEAN : JoinStart(j, inVoice)
    \/ \E j \in JoinIds : JoinRun(j)
    \/ \E j \in JoinIds, outcome \in {"ok", "Forbidden", "Exception"} :
          JoinConnected(j, outcome)
    \/ StopStart
    \/ StopRun
    \/ StopCleanup
    \/ LeaveStart
    \/ LeaveRun
    \/ LeaveDisconnected
    \/ \E c \in ClientIds : CallbackStart(c)
    \/ \E c \in ClientIds : CallbackDisconnected(c)
    \/ \E c \in ClientIds : CallbackDone(c)
    \/ \E c \in ClientIds : Dropped(c)

SpecVoice == InitVoice /\ [][NextVoice]_vars

\* The event loop resumes every task whose await has returned, and runs
\* every callback handed to it: the steps of /stop and of the recording
\* callback are taken once they can be.
SpecVoiceFair ==
    /\ SpecVoice
    /\ WF_vars(StopRun)
    /\ WF_vars(StopCleanup)
    /\ \A c \in ClientIds : WF_vars(CallbackStart(c))
    /\ \A c \in ClientIds : WF_vars(CallbackDisconnected(c))

\* ---------------------------------------- the machine of lock and unlock
InitChannel ==
    /\ variant \in LockVariants
    /\ CmdAtRest
    /\ BootAtRest
    /\ TimersAtRest
    /\ RulesAtRest
    /\ VoiceAtRest
    /\ ChannelAtRest
    /\ InteractionAtRest
    /\ DurationAtRest

\* /lock: the whole handler.
Lock(inGuild, hasPerm, outcome) ==
    /\ chan' = lock(variant, overwrite, inGuild, hasPerm, outcome)
    /\ overwrite' = chan'.after
    /\ UNCHANGED <<variant, cmdVars, bootVars, timerVars,
                   ruleVars, voiceVars, ix, durVars>>

\* /unlock: the whole handler.
Unlock(inGuild, hasPerm, outcome) ==
    /\ chan' = unlock(variant, overwrite, inGuild, hasPerm, outcome)
    /\ overwrite' = chan'.after
    /\ UNCHANGED <<variant, cmdVars, bootVars, timerVars,
                   ruleVars, voiceVars, ix, durVars>>

\* A moderator edits the channel's permissions by hand.
EditOverwrite(ow) ==
    /\ overwrite # ow
    /\ overwrite' = ow
    /\ chan' = [NoChange EXCEPT !.op = "edit", !.before = overwrite, !.after = ow]
    /\ UNCHANGED <<variant, cmdVars, bootVars, timerVars,
                   ruleVars, voiceVars, ix, durVars>>

NextChannel ==
    \/ \E inGuild \in BOOLEAN, hasPerm \in BOOLEAN, outcome \in Outcomes :
          Lock(inGuild, hasPerm, outcome)
    \/ \E inGuild \in BOOLEAN, hasPerm \in BOOLEAN, outcome \in Outcomes :
          Unlock(inGuild, hasPerm, outcome)
    \/ \E ow \in OverwriteValues : EditOverwrite(ow)

SpecChannel == InitChannel /\ [][NextChannel]_vars

\* ---------------------------------------- the machine of parse_duration
InitDuration ==
    /\ variant = "voice"
    /\ CmdAtRest
    /\ BootAtRest
    /\ TimersAtRest
    /\ RulesAtRest
    /\ VoiceAtRest
    /\ ChannelAtRest
    /\ InteractionAtRest
    /\ duration \in DurationStrings
    /\ tm = NoMute

\* parse_duration is applied to the string.
ParseDuration ==
    /\ tm' = [NoMute EXCEPT !.op = "parse", !.td = parse_duration(duration)]
    /\ UNCHANGED <<variant, cmdVars, bootVars, timerVars,
                   ruleVars, voiceVars, chanVars, ix, duration>>

\* /tempmute with the string: the whole handler.
Tempmute(mut) ==
    /\ tm' = tempmute_command(duration, mut)
    /\ UNCHANGED <<variant, cmdVars, bootVars, timerVars,
                   ruleVars, voiceVars, chanVars, ix, duration>>

NextDuration ==
    \/ ParseDuration
    \/ \E mut \in Outcomes : Tempmute(mut)

SpecDuration == InitDuration /\ [][NextDuration]_vars

\* ------------------------------------------ the machine of interactions
InitInteraction ==
    /\ variant \in {"main", "cog", "logged"}
    /\ CmdAtRest
    /\ BootAtRest
    /\ TimersAtRest
    /\ RulesAtRest
    /\ VoiceAtRest
    /\ ChannelAtRest
    /\ InteractionAtRest
    /\ DurationAtRest

\* Each action is one invocation: the decorator check, the handler, then
\* the tree's error handler for what these let escape.  o gives what the
\* sends do in the order of the calls: up to three of the handler, then
\* the one of the error handler.
EmbedMessage(inGuild, hasPerm, valid, o) ==
    /\ variant = "logged"
    /\ ix' = error_response(variant,
                embed_message(NewInteraction("embed", inGuild, hasPerm, valid), o),
                o[4])
    /\ UNCHANGED <<variant, cmdVars, bootVars, timerVars, ruleVars,
                 voiceVars, chanVars, durVars>>

LoggedKick(inGuild, hasPerm, valid, mut, o) ==
    /\ variant = "logged"
    /\ ix' = error_response(variant,
                kick_responses(NewInteraction("kick", inGuild, hasPerm, valid), mut, o),
                o[4])
    /\ UNCHANGED <<variant, cmdVars, bootVars, timerVars, ruleVars,
                 voiceVars, chanVars, durVars>>

Warn(inGuild, hasPerm, o) ==
    /\ variant = "logged"
    /\ ix' = error_response(variant,
                warn(NewInteraction("warn", inGuild, hasPerm, TRUE), o), o[4])
    /\ UNCHANGED <<variant, cmdVars, bootVars, timerVars, ruleVars,
                 voiceVars, chanVars, durVars>>

CogKick(hasPerm, valid, mut, o) ==
    /\ variant = "cog"
    /\ ix' = error_response(variant,
                kick_command_responses(NewInteraction("kick", TRUE, hasPerm, valid),
                                       mut, o),
                o[4])
    /\ UNCHANGED <<variant, cmdVars, bootVars, timerVars, ruleVars,
                 voiceVars, chanVars, durVars>>

AdminOnly(cmd, isAdmin, o) ==
    /\ variant = "main"
    /\ ix' = error_response(variant,
                admin_only(NewInteraction(cmd, TRUE, TRUE, isAdmin), o), o[4])
    /\ UNCHANGED <<variant, cmdVars, bootVars, timerVars, ruleVars,
                 voiceVars, chanVars, durVars>>

Nuke(mut, o) ==
    /\ variant = "main"
    /\ ix' = error_response(variant,
                nuke(NewInteraction("nuke", TRUE, TRUE, TRUE), mut, o), o[4])
    /\ UNCHANGED <<variant, cmdVars, bootVars, timerVars, ruleVars,
                 voiceVars, chanVars, durVars>>

NextInteraction ==
    \/ \E inGuild \in BOOLEAN, hasPerm \in BOOLEAN, valid \in BOOLEAN,
          o \in [1..4 -> Outcomes] : EmbedMessage(inGuild, hasPerm, valid, o)
    \/ \E inGuild \in BOOLEAN, hasPerm \in BOOLEAN, valid \in BOOLEAN,
          mut \in Outcomes, o \in [1..4 -> Outcomes] :
          LoggedKick(inGuild, hasPerm, valid, mut, o)
    \/ \E inGuild \in BOOLEAN, hasPerm \in BOOLEAN, o \in [1..4 -> Outcomes] :
          Warn(inGuild, hasPerm, o)
    \/ \E hasPerm \in BOOLEAN, valid \in BOOLEAN, mut \in Outcomes,
          o \in [1..4 -> Outcomes] : CogKick(hasPerm, valid, mut, o)
    \/ \E cmd \in {"set_autoresponse", "backup_logs"}, isAdmin \in BOOLEAN,
          o \in [1..4 -> Outcomes] : AdminOnly(cmd, isAdmin, o)
    \/ \E mut \in Outcomes, o \in [1..4 -> Outcomes] : Nuke(mut, o)

SpecInteraction == InitInteraction /\ [][NextInteraction]_vars

\* ---------------------------------------- the machine of deletion timers
InitTimers ==
    /\ variant = "cog"
    /\ CmdAtRest
    /\ BootAtRest
    /\ TimersAtRest
    /\ RulesAtRest
    /\ VoiceAtRest
    /\ ChannelAtRest
    /\ InteractionAtRest
    /\ DurationAtRest

\* A command's callback sends its interaction response.  Responses are
\* numbered in the order they are sent.
Respond(m) ==
    /\ msgs[m].phase = "unsent"
    /\ \A k \in MsgIds : k < m => msgs[k].phase # "unsent"
    /\ \E cmd \in TimerCmds :
          msgs' = [msgs EXCEPT ![m] = [NoMsg EXCEPT !.cmd = cmd,
                                                   !.eph = Ephemeral(cmd),
                                                   !.phase = "sent",
                                                   !.exists = TRUE]]
    /\ UNCHANGED <<variant, cmdVars, bootVars, ruleVars, voiceVars,
                   chanVars, ix, durVars, now, timers>>

\* The command returned without an exception: the tree dispatches
\* app_command_completion and the whole handler runs.
OnCompletion(m) ==
    /\ msgs[m].phase = "sent"
    /\ \E fetch \in FetchOutcomes(msgs[m]) :
          LET did == on_app_command_completion(msgs[m].cmd, fetch, msgs[m].eph)
          IN  /\ msgs' = [msgs EXCEPT ![m].phase = "completed",
                                      ![m].fetch = IF Fetches(msgs[m].cmd)
                                                   THEN fetch ELSE "none"]
              /\ timers' = IF did = "schedule"
                           THEN [timers EXCEPT
                                    ![m].created = timers[m].created + 1,
                                    ![m].state = "sleeping",
                                    ![m].since = now]
                           ELSE timers
    /\ UNCHANGED <<variant, cmdVars, bootVars, ruleVars,
                   voiceVars, chanVars, ix, durVars, now>>

\* Somebody else deletes the response (or dismisses it).
UserDeletes(m) ==
    /\ msgs[m].exists
    /\ msgs' = [msgs EXCEPT ![m].exists = FALSE]
    /\ UNCHANGED <<variant, cmdVars, bootVars, ruleVars, voiceVars,
                   chanVars, ix, durVars, now, timers>>

\* asyncio.sleep(30) has returned: the rest of delete_after_30s runs.
DeleteAttempt(m) ==
    /\ timers[m].state = "sleeping"
    /\ SleepOver(timers[m])
    /\ \E outcome \in DeleteOutcomes(msgs[m]) :
          LET result == delete_after_30s(outcome)
          IN  /\ timers' = [timers EXCEPT ![m].state = "done",
                                          ![m].since = 0,
                                          ![m].attempts = timers[m].attempts + 1,
                                          ![m].early = (now < timers[m].since + Delay),
                                          ![m].found = msgs[m].exists,
                                          ![m].result = result]
              /\ msgs' = [msgs EXCEPT
                            ![m].exists = msgs[m].exists /\ result # "deleted"]
    /\ UNCHANGED <<variant, cmdVars, bootVars, ruleVars,
                   voiceVars, chanVars, ix, durVars, now>>

\* Time passes.  The clock stops at MaxTime unless a task is still asleep.
Tick ==
    /\ \/ now < MaxTime
       \/ \E m \in MsgIds : timers[m].state = "sleeping" /\ ~SleepOver(timers[m])
    /\ now' = now + TickStep
    /\ UNCHANGED <<variant, cmdVars, bootVars, ruleVars, voiceVars,
                   chanVars, ix, durVars, msgs, timers>>

NextTimers ==
    \/ \E m \in MsgIds : Respond(m)
    \/ \E m \in MsgIds : OnCompletion(m)
    \/ \E m \in MsgIds : UserDeletes(m)
    \/ \E m \in MsgIds : DeleteAttempt(m)
    \/ Tick

\* The event loop keeps running: the clock advances and a task whose sleep
\* is over is resumed.
SpecTimers ==
    /\ InitTimers
    /\ [][NextTimers]_vars
    /\ WF_vars(Tick)
    /\ \A m \in MsgIds : WF_vars(DeleteAttempt(m))


\* ------------------------------------------------------------- the claims
\* The callback was entered with the invoker allowed to run the command.
Invoked == pc = "done" /\ req.inGuild /\ req.hasPerm

ActorOutranked ==
    topRole[req.actor] <= topRole[req.target] /\ req.actor # owner

Rejections == {"RejSelf", "RejSeniority", "RejBot", "RejDuration", "RejDM",
               "RejNotTimedOut", "RejInput", "Denied"}
Failures == {"FailPerm", "FailGeneric"}

\* C1: kick and ban, in every copy: when the actor's top role is lower than
\* or equal to the target's and the actor is not the guild owner (and the
\* target is somebody else, the self-target check coming first), the handler
\* answers with the seniority rejection and never calls member.kick /
\* member.ban.
C1_SeniorityRejects ==
    (Invoked /\ req.cmd \in {"kick", "ban"} /\ req.target # req.actor
        /\ ActorOutranked)
    => (out.reply = "RejSeniority" /\ out.calls = 0)

\* C2: every moderation request whose target is the actor is rejected with
\* the self-target reason and the mutation is not invoked, whatever the
\* ranks and whether or not the actor is the guild owner.  (A request whose
\* duration string was refused is left out: that is input validation.)
C2_SelfTargetRejects ==
    (Invoked /\ req.cmd \in MemberCmds /\ req.target = req.actor
        /\ out.reply # "RejDuration")
    => (out.reply = "RejSelf" /\ out.calls = 0)

\* C3: kick and ban: when the self-target and actor-seniority checks pass
\* but the bot's top role does not exceed the target's, the handler rejects
\* with the bot-seniority reason and never invokes the mutation.
C3_BotSeniorityRejects ==
    (Invoked /\ req.cmd \in {"kick", "ban"} /\ req.target # req.actor
        /\ ~ActorOutranked /\ out.reply \notin {"RejSelf", "RejSeniority"}
        /\ botTopRole <= topRole[req.target])
    => (out.reply = "RejBot" /\ out.calls = 0)

\* C4: when the actor is the guild owner and the target is another member,
\* the actor-seniority comparison never rejects the request.
C4_OwnerBypasses ==
    (Invoked /\ req.cmd \in MemberCmds /\ req.actor = owner
        /\ req.target # req.actor)
    => out.reply # "RejSeniority"

\* C5: kick, ban, mute and unmute alike: the mutation is never invoked when
\* the actor's top role is lower than or equal to the target's and the actor
\* is not the guild owner (the target being somebody else).
C5_GuardCoversAllActions ==
    (Invoked /\ req.cmd \in MemberCmds /\ req.target # req.actor
        /\ ActorOutranked)
    => out.calls = 0

\* C6: when the mutation raises Forbidden, the handler does not let it
\* escape: the invoker gets the permission failure and no audit notification
\* goes to the log channel.
C6_ForbiddenHandled ==
    (Invoked /\ req.cmd \in MemberCmds /\ out.mutation = "Forbidden")
    => (out.raised = "none" /\ out.reply = "FailPerm" /\ ~out.audit)

\* C7: when the mutation raises any other exception, the command catches it
\* and answers with a generic failure that carries the exception's message.
C7_OtherExceptionHandled ==
    (Invoked /\ req.cmd \in MemberCmds /\ out.mutation = "HTTPException")
    => (out.raised = "none" /\ out.reply = "FailGeneric" /\ out.detail)

\* Every precondition of the guard holds for the request.
GuardPasses ==
    /\ req.target # req.actor
    /\ ~ActorOutranked
    /\ botTopRole > topRole[req.target]

\* C8: when every precondition of the guard passes and the mutation raises
\* nothing, the handler invokes the mutation exactly once, reports Success
\* and produces an audit notification; an audit notification is produced
\* only when the mutation was invoked and raised nothing.
C8_SuccessOnceWithAudit ==
    /\ (Invoked /\ req.cmd \in MemberCmds /\ GuardPasses
            /\ out.reply # "RejDuration"
            /\ out.mutation \in {"notcalled", "ok"})
       => (out.calls = 1 /\ out.reply = "Success" /\ out.audit)
    /\ (pc = "done" /\ req.cmd \in MemberCmds /\ out.audit)
       => (out.calls = 1 /\ out.mutation = "ok")

\* C9: all-or-nothing: whenever the invoker is sent a failure or a rejection,
\* the member mutation has not taken effect.
C9_AllOrNothing ==
    (pc = "done" /\ req.cmd \in MemberCmds
        /\ out.reply \in Rejections \cup Failures)
    => ~out.effect

\* C10: a purge / clear count outside 1..100 is rejected before any deletion
\* call: channel.purge is only ever called with a limit between 1 and 100.
C10_PurgeWithinRange ==
    (pc = "done" /\ req.cmd = "clear")
    => /\ out.limit # NoLimit => out.limit \in PurgeMin..PurgeMax
       /\ req.amount \notin PurgeMin..PurgeMax => out.calls = 0

\* C18: every failure or rejection the invoker is sent, by a handler or by an
\* error handler, is sent ephemeral: none is posted publicly in the channel.
C18_FailuresArePrivate ==
    (pc = "done" /\ out.reply \in Rejections \cup Failures) => out.eph

\* The process was started with neither DISCORD_BOT_TOKEN nor TOKEN set and
\* has come to rest.
StartedWithoutToken ==
    /\ env.DISCORD_BOT_TOKEN = "unset"
    /\ env.TOKEN = "unset"
    /\ boot.phase # "start"

\* C19: with neither DISCORD_BOT_TOKEN nor TOKEN set, in every copy, the
\* process prints a diagnostic and halts at once: bot.run / bot.start is
\* never called.
C19_MissingTokenHalts ==
    StartedWithoutToken =>
        /\ ~boot.runReached
        /\ boot.phase = "exited" => boot.diagnostic

\* ------------------------------------------------- claims about the timers
\* The command names the contract excludes from deletion by name:
\* persistent announcements (embed), polls, rules.
AllowList == {"embed", "poll", "rules"}

\* The response m is public, not excluded by name, and its command completed.
PublicCompleted(m) ==
    /\ msgs[m].phase = "completed"
    /\ ~msgs[m].eph
    /\ msgs[m].cmd \notin AllowList

TimerInv(m) ==
    /\ timers[m].created <= 1
    /\ timers[m].attempts <= 1
    /\ (PublicCompleted(m) /\ msgs[m].fetch = "ok") => timers[m].created = 1
    /\ timers[m].state = "none" <=> timers[m].created = 0
    /\ timers[m].state = "sleeping" => timers[m].attempts = 0
    /\ timers[m].state = "done" =>
            /\ timers[m].attempts = 1
            /\ ~timers[m].early

\* A step changes a sleeping timer only by its own delete attempt, and that
\* attempt changes no other timer.
TimerStep(m) ==
    (timers[m].state = "sleeping" /\ timers'[m] # timers[m])
    => /\ timers'[m].state = "done"
       /\ \A k \in MsgIds \ {m} : timers'[k] = timers[k]

C12_TimerEndsSilently ==
    /\ [](\A m \in MsgIds :
            timers[m].state = "done" =>
                /\ timers[m].result \in {"deleted", "noop", "logged"}
                /\ ~timers[m].found => timers[m].result = "noop"
                /\ timers[m].result = "deleted" => ~msgs[m].exists
                /\ ~timers[m].notified)
    /\ [][\A m \in MsgIds :
            timers[m].state = "done" => timers'[m] = timers[m]]_vars

\* Both endings have happened: a no-op on a message deleted out-of-band and
\* a deletion error that was logged.
C12_Witness ==
    \E m, k \in MsgIds :
        /\ timers[m].state = "done" /\ ~timers[m].found
        /\ timers[m].result = "noop"
        /\ timers[k].state = "done" /\ timers[k].result = "logged"

\* C13: no deletion timer is ever created for an ephemeral response, on any
\* path of on_app_command_completion.
C13_EphemeralNeverScheduled ==
    \A m \in MsgIds :
        msgs[m].eph => (timers[m].created = 0 /\ timers[m].state = "none")

\* The completion handler fetched an ephemeral response and made no timer.
C13_Witness ==
    \E m \in MsgIds :
        /\ msgs[m].eph
        /\ msgs[m].phase = "completed"
        /\ msgs[m].fetch = "ok"
        /\ timers[m].created = 0

\* C14 as stated: no deletion timer is ever created for the response of a
\* command on the allow-list: poll, rules, embed.
C14_AllowListNeverScheduled ==
    \A m \in MsgIds :
        msgs[m].cmd \in AllowList => timers[m].created = 0

\* C14, amended: the commands excluded by name are embed and poll: no
\* deletion timer is ever created for the response of /embed or /poll
\* (the response of /rules is scheduled like any other public response).
C14_EmbedPollNeverScheduled ==
    \A m \in MsgIds :
        msgs[m].cmd \in {"embed", "poll"}
        => (timers[m].created = 0 /\ timers[m].state = "none")

\* The command of a public /poll response that still exists has completed
\* and no timer was made for it.
C14_Witness ==
    \E m \in MsgIds :
        /\ msgs[m].cmd = "poll"
        /\ msgs[m].phase = "completed"
        /\ msgs[m].exists
        /\ timers[m].created = 0

\* C28: every response that carries the create_embed footer
\* 'Auto-deleting in 30 seconds.' is a public message, and once its command
\* has completed a deletion timer has been made for it; an ephemeral
\* response never carries that footer.
C28_FooterOnlyOnTimedMessages ==
    \A m \in MsgIds :
        (msgs[m].phase # "unsent" /\ create_embed_footer(msgs[m].cmd))
        => /\ ~msgs[m].eph
           /\ msgs[m].phase = "completed" => timers[m].created = 1

\* ---------------------------------------- claims about the auto-responder
\* The text in lower case (of the characters the model knows, "W" is the
\* one in upper case).
Lower(text) == [i \in 1..Len(text) |-> IF text[i] = "W" THEN "w" ELSE text[i]]

RECURSIVE TrimLeft(_)
TrimLeft(text) ==
    IF text # << >> /\ Head(text) = " " THEN TrimLeft(Tail(text)) ELSE text

RECURSIVE TrimRight(_)
TrimRight(text) ==
    IF text # << >> /\ text[Len(text)] = " "
    THEN TrimRight(SubSeq(text, 1, Len(text) - 1))
    ELSE text

\* keyword.lower().strip()
Normalize(keyword) == TrimRight(TrimLeft(Lower(keyword)))

\* part is a substring of text
Contains(text, part) ==
    \E i \in 0..(Len(text) - Len(part)) : SubSeq(text, i + 1, i + Len(part)) = part

\* The last operation was a set command that stored a rule.
RuleSet == last.op = "set" /\ last.admin

\* C15: each community has at most one rule (one keyword/response pair
\* under its id), and a set command replaces rather than merges: after it
\* the community's rule is the pair just given, whatever was stored before,
\* the step leaves the rules of every other community as they were, and
\* no message is answered with anything but the response now stored.
C15_SetReplaces ==
    /\ [](RuleSet =>
            /\ last.guild \in DOMAIN detection_settings
            /\ DOMAIN detection_settings[last.guild] = {"keyword", "response"}
            /\ detection_settings[last.guild].response = last.response
            /\ Normalize(detection_settings[last.guild].keyword)
                    = Normalize(last.keyword))
    /\ [](last.op = "message" /\ last.reply # "none" =>
            /\ last.guild \in DOMAIN detection_settings
            /\ last.reply = detection_settings[last.guild].response)
    /\ [][\A g \in GuildIds :
            (last'.op \in {"set", "reset"} /\ last'.guild # g)
            => /\ g \in DOMAIN detection_settings' <=> g \in DOMAIN detection_settings
               /\ g \in DOMAIN detection_settings
                    => detection_settings'[g] = detection_settings[g]]_vars

\* A set command has replaced the rule of one community with a different
\* pair while another community has a rule of its own.
C15_Witness ==
    /\ RuleSet
    /\ last.replaced
    /\ \E g \in GuildIds \ {last.guild} :
          /\ g \in DOMAIN detection_settings
          /\ detection_settings[g].response # last.response

\* C16: the keyword a set command stores is the lower-cased,
\* whitespace-trimmed form of the keyword it was given.
C16_KeywordNormalized ==
    RuleSet => detection_settings[last.guild].keyword = Normalize(last.keyword)

\* What on_incoming_text is to return.
Expected(settings, g, text) ==
    IF g \in DOMAIN settings /\ Contains(Lower(text), settings[g].keyword)
    THEN settings[g].response
    ELSE "none"

\* C17: for every incoming message the bot answers with the community's
\* stored response exactly when the lower-cased text contains the stored
\* keyword, and with nothing when there is no rule or no match.
C17_MatchAnswers ==
    last.op = "message"
    => last.reply = Expected(detection_settings, last.guild, last.text)

\* C25: the rule of a community is created, overwritten or cleared only by
\* an invocation from the administrator: after a set_autoresponse or
\* reset_autoresponse invocation by anybody else the community has a rule
\* exactly when it had one before (last.replaced), and the step has left
\* detection_settings as it was.
C25_OnlyAdministratorChanges ==
    /\ (last.op \in {"set", "reset"} /\ ~last.admin)
            => (last.guild \in DOMAIN detection_settings <=> last.replaced)
    /\ [][(last'.op \in {"set", "reset"} /\ ~last'.admin)
            => detection_settings' = detection_settings]_vars

\* ----------------------------------------- claims about interactions
\* C23: every command invocation sends at most one initial interaction
\* response: response.send_message or response.defer is never called on an
\* interaction that already has its initial response; every further
\* message goes through followup or the channel.
C23_AtMostOneInitialResponse ==
    /\ ix.initial <= 1
    /\ ~ix.twice

\* C24: every command invocation sends a response to the invoker: when the
\* platform refuses no send, no handler returns (or destroys the channel)
\* without the interaction having its response.
C24_EveryInvocationResponds ==
    (ix.cmd # "none" /\ ~ix.failed /\ ix.raised = "none") => ix.done

\* --------------------------------------- claims about parse_duration
\* The reference parser: one positive decimal number N followed by one
\* unit word (letters only) that starts with s, m but not mo, h, d or w;
\* NoDuration for every other string.
LeadingDigits(str) ==
    CHOOSE k \in 0..Len(str) :
        /\ \A i \in 1..k : str[i] \in Digits
        /\ k < Len(str) => str[k + 1] \notin Digits

ReferenceParse(text) ==
    LET str == lower(text)
        k == LeadingDigits(str)
        number == SubSeq(str, 1, k)
        unit == SubSeq(str, k + 1, Len(str))
        N == AmountOf(number, 0)
    IN  IF k = 0 \/ unit = << >> \/ N = 0
           \/ \E i \in 1..Len(unit) : unit[i] \notin Letters
        THEN NoDuration
        ELSE CASE unit[1] = "s" -> N * Second
               [] unit[1] = "m" /\ ~startswith(unit, <<"m", "o">>) -> N * Minute
               [] unit[1] = "h" -> N * Hour
               [] unit[1] = "d" -> N * Day
               [] unit[1] = "w" -> N * Week
               [] OTHER -> NoDuration

\* C27: parse_duration equals the reference parser on every string.
C27_ParseEqualsReference ==
    tm.op = "parse" => tm.td = ReferenceParse(duration)

\* C26: tempmute never calls member.timeout with a duration longer than 28
\* days or for a duration string that parse_duration cannot parse: in both
\* cases the invoker gets an error and member.timeout is not called.
C26_TimeoutOnlyWithValidDuration ==
    tm.op = "tempmute" =>
        /\ tm.called => /\ tm.td # NoDuration
                        /\ tm.td <= MaxTimeoutDays * Day
        /\ (\/ parse_duration(duration) = NoDuration
            \/ parse_duration(duration) > MaxTimeoutDays * Day)
                => /\ ~tm.called
                   /\ tm.reply \in {"RejFormat", "RejDuration"}

\* /tempmute was given a duration of more than 28 days and rejected it.
C26_Witness ==
    /\ tm.op = "tempmute"
    /\ tm.td > MaxTimeoutDays * Day
    /\ ~tm.called
    /\ tm.reply = "RejDuration"

\* --------------------------------------- claims about lock and unlock
\* C29: lock and unlock only act on a real state change: set_permissions
\* is called by lock only on a channel that is not locked (the overwrite is
\* not False) and by unlock only on a channel that is locked, so a repeated
\* lock or unlock is rejected and changes nothing.
C29_OnlyOnTransition ==
    /\ (chan.op = "lock" /\ chan.called) => chan.before # "False"
    /\ (chan.op = "unlock" /\ chan.called) => chan.before = "False"
    /\ (chan.op = "lock" /\ chan.before = "False") => chan.after = "False"
    /\ (chan.op = "unlock" /\ chan.before # "False") => chan.after = chan.before

\* --------------------------------------- claims about voice recording
\* C20: under every interleaving of leave_command with
\* finished_recording_callback for the same guild, leave_command's
\* del voice_clients[guild] never hits a missing key: /leave never ends
\* with a KeyError at that statement.
C20_LeaveNeverMissesKey == leave.pc # "KeyErrorAtDel"

\* C21: at most one voice connection exists per guild: no two voice
\* clients of the guild are connected at once, voice_channel.connect() is
\* never running in two /join invocations at once, and it is not running
\* while a connected client is registered.
C21_OneConnectionPerGuild ==
    /\ Cardinality({j \in JoinIds : join[j].pc = "connecting"}) <= 1
    /\ Cardinality({c \in DOMAIN clients : clients[c].connected}) <= 1
    /\ ~(/\ \E j \in JoinIds : join[j].pc = "connecting"
         /\ Connected(voice_clients, clients, VoiceGuild))

=============================================================================
